---------------------------- MODULE Spec2Model ----------------------------
(***************************************************************************)
(* A model of the gofetch fetch pipeline (StacklokLabs/gofetch):           *)
(*   server.handleFetchTool -> fetcher.FetchURL -> robots.IsAllowed        *)
(*                          -> fetcher.fetchURL -> processor.ProcessHTML   *)
(*                          -> processor.FormatContent                      *)
(* Go strings are byte sequences: a string is modelled as a sequence of    *)
(* bytes (0..255) holding UTF-8, so that len() and s[i:j] mean what they   *)
(* mean in Go.                                                             *)
(***************************************************************************)
EXTENDS Integers, Sequences, FiniteSets, TLC

(***************************************************************************)
(* Bounds of the model.                                                    *)
(***************************************************************************)
\* longest content, in characters, handed to FormatContent on its own
MaxChars == 2
\* largest start_index / max_length handed to FormatContent on its own
MaxIndex == 4
\* concurrent tool calls
NumReqs == 2
\* redirects one httpClient.Do follows in the model (net/http stops after 10 requests)
MaxRedirects == 1
\* clock ticks (robots policy ageing) in one behaviour
MaxTicks == 1

(***************************************************************************)
(* Strings.                                                                *)
(***************************************************************************)
\* "a", U+00E9 (2 bytes of UTF-8) and U+20AC (3 bytes of UTF-8)
Alphabet == { <<97>>, <<195, 169>>, <<226, 130, 172>> }

\* an optional int (*int): <<>> is nil, <<v>> points to v
Nil == <<>>

Ptr(v) == <<v>>

\* Go's s[i:j] on a string, 0 <= i <= j <= len(s)
Slice(s, i, j) == [k \in 1..(j - i) |-> s[i + k]]

\* the strings of at most n characters of the alphabet, as bytes
RECURSIVE StringsUpTo(_)
StringsUpTo(n) ==
  IF n = 0 THEN { <<>> }
  ELSE LET shorter == StringsUpTo(n - 1)
       IN  shorter \cup { s \o c : s \in shorter, c \in Alphabet }

\* UTF-8: the length of the character a lead byte starts
RuneLen(b) == IF b < 128 THEN 1 ELSE IF b < 224 THEN 2 ELSE IF b < 240 THEN 3 ELSE 4

\* UTF-8: a continuation byte, 10xxxxxx
IsContinuation(b) == b >= 128 /\ b < 192

\* whether s is a sequence of whole UTF-8 characters
RECURSIVE ValidUTF8(_)
ValidUTF8(s) ==
  IF s = <<>> THEN TRUE
  ELSE LET n == RuneLen(s[1])
       IN  /\ ~IsContinuation(s[1])
           /\ n <= Len(s)
           /\ \A k \in 2..n : IsContinuation(s[k])
           /\ ValidUTF8(Slice(s, n, Len(s)))

\* the characters (code points) of a valid UTF-8 string, each as its bytes
RECURSIVE Runes(_)
Runes(s) ==
  IF s = <<>> THEN <<>>
  ELSE LET n == RuneLen(s[1])
       IN  <<Slice(s, 0, n)>> \o Runes(Slice(s, n, Len(s)))

\* the bytes of a sequence of characters
RECURSIVE Encode(_)
Encode(rs) == IF rs = <<>> THEN <<>> ELSE rs[1] \o Encode(Tail(rs))

\* the number of code points of s
RuneCount(s) == Len(Runes(s))

Min(a, b) == IF a < b THEN a ELSE b

(***************************************************************************)
(* processor.FormatContent                                                 *)
(***************************************************************************)
\* "\n\n[Content truncated. Use start_index to get more content.]"
TruncationMarker ==
  << 10, 10, 91, 67, 111, 110, 116, 101, 110, 116, 32, 116, 114, 117, 110, 99,
     97, 116, 101, 100, 46, 32, 85, 115, 101, 32, 115, 116, 97, 114, 116, 95,
     105, 110, 100, 101, 120, 32, 116, 111, 32, 103, 101, 116, 32, 109, 111,
     114, 101, 32, 99, 111, 110, 116, 101, 110, 116, 46, 93 >>

\* Go's bounds check of a slice expression s[i:j] on a string: it panics
\* unless 0 <= i <= j <= len(s)
SliceInRange(s, i, j) == 0 <= i /\ i <= j /\ j <= Len(s)

\* FormatStart without the clamp of start to len(content)
FormatStart_NoClamp(content, startIndex) ==
  IF startIndex # Nil THEN startIndex[1] ELSE 0

\* start := 0; if startIndex != nil { start = *startIndex };
\* if start > len(content) { start = len(content) }
FormatStart(content, startIndex) ==
  LET start == IF startIndex # Nil THEN startIndex[1] ELSE 0
  IN  IF start > Len(content) THEN Len(content) ELSE start

\* FormatContent, for startIndex and maxLength nil or >= 0
FormatContent(content, startIndex, maxLength) ==
  LET start == FormatStart(content, startIndex)
      rest  == Slice(content, start, Len(content))
  IN  IF maxLength # Nil /\ Len(rest) > maxLength[1]
        THEN Slice(rest, 0, maxLength[1]) \o TruncationMarker
        ELSE rest

\* whether FormatContent panics: one of its two slice expressions,
\* content[start:] and content[:*maxLength], is out of range
FormatContentPanics(content, startIndex, maxLength) ==
  LET start == FormatStart(content, startIndex)
      rest  == Slice(content, start, Len(content))
  IN  \/ ~SliceInRange(content, start, Len(content))
      \/ /\ maxLength # Nil
         /\ Len(rest) > maxLength[1]
         /\ ~SliceInRange(rest, 0, maxLength[1])

(***************************************************************************)
(* Go's net/http, as the client NewFetchServer builds uses it.             *)
(***************************************************************************)
StatusOK == 200

\* the final statuses a server answers with in the model
Statuses == { StatusOK, 204, 404 }

\* a Content-Type header, as its media type followed by its parameters;
\* <<>> is a response without the header
ContentTypes ==
  { <<"text/html">>, <<"text/html", "charset=utf-8">>, <<"text/plain">>, <<>> }

\* strings.Contains(header, tok), on the header's parts
HeaderContains(header, tok) == \E i \in 1..Len(header) : header[i] = tok

(***************************************************************************)
(* HTML, as the third-party libraries ProcessHTML calls see it: tags are   *)
(* <x> and </x>; <n>..</n> is navigation boilerplate, <p>..</p> a          *)
(* paragraph.                                                              *)
(***************************************************************************)
\* "<n>a</n>"
NavElement == <<60, 110, 62, 97, 60, 47, 110, 62>>

\* "<p>" U+00E9 "a</p>"
ParaElement == <<60, 112, 62, 195, 169, 97, 60, 47, 112, 62>>

\* "<n>a</n><p>" U+00E9 "a</p>"
HtmlPage == NavElement \o ParaElement

\* "a" U+00E9 "a": a body that is no HTML
TextPage == <<97, 195, 169, 97>>

Bodies == { HtmlPage, TextPage }

HasPrefix(s, p) == Len(p) <= Len(s) /\ Slice(s, 0, Len(p)) = p

\* readability.FromDocument(doc).Content: the page without its boilerplate
ArticleContent(html) ==
  IF HasPrefix(html, NavElement) THEN Slice(html, Len(NavElement), Len(html)) ELSE html

\* htmltomarkdown.ConvertString: the text of the page, its tags (from "<", 60,
\* to ">", 62) dropped
RECURSIVE StripTags(_, _)
StripTags(s, inTag) ==
  IF s = <<>> THEN <<>>
  ELSE IF s[1] = 60 THEN StripTags(Tail(s), TRUE)
  ELSE IF s[1] = 62 THEN StripTags(Tail(s), FALSE)
  ELSE IF inTag THEN StripTags(Tail(s), TRUE)
  ELSE <<s[1]>> \o StripTags(Tail(s), FALSE)

ConvertString(html) == StripTags(html, FALSE)

\* what the libraries do in one call of ProcessHTML
LibOutcomes ==
  [parseErr : BOOLEAN, article : {"err", "empty", "ok"}, convertErr : BOOLEAN]

(***************************************************************************)
(* processor.ProcessHTML                                                   *)
(***************************************************************************)
\* taking the article whatever readability returned: nothing when it was
\* empty, the extraction also when it reported an error
ProcessHTML_AlwaysArticle(htmlContent, lib) ==
  IF lib.parseErr THEN htmlContent
  ELSE LET readable == IF lib.article = "empty" THEN <<>>
                       ELSE ArticleContent(htmlContent)
       IN  IF lib.convertErr THEN readable ELSE ConvertString(readable)

ProcessHTML(htmlContent, lib) ==
  IF lib.parseErr THEN htmlContent
  ELSE LET readable == IF lib.article = "ok" /\ ArticleContent(htmlContent) # <<>>
                         THEN ArticleContent(htmlContent)
                         ELSE htmlContent
       IN  IF lib.convertErr THEN readable ELSE ConvertString(readable)

(***************************************************************************)
(* Errors and results.                                                     *)
(***************************************************************************)
\* An error is its kind, the status code its message holds, and whether its
\* message holds the URL of the request.
NoErr == [kind |-> "nil", code |-> 0, url |-> FALSE]

\* fmt.Errorf("access to %s is disallowed by robots.txt", req.URL)
RobotsDisallowed == [kind |-> "robots", code |-> 0, url |-> TRUE]

\* fmt.Errorf("failed to fetch URL: %v", err): the err of http.Client.Do is a
\* *url.Error, whose message is the method, the quoted URL and the cause
NetworkError == [kind |-> "network", code |-> 0, url |-> TRUE]

\* fmt.Errorf("HTTP %d: %s", resp.StatusCode, resp.Status)
HTTPStatusError(code) == [kind |-> "status", code |-> code, url |-> FALSE]

\* fmt.Errorf("failed to read response body: %v", err): the err of the body's Read
ReadError == [kind |-> "read", code |-> 0, url |-> FALSE]

(***************************************************************************)
(* fetcher.fetchURL, from the response httpClient.Do returned.             *)
(***************************************************************************)
\* the same without the raw flag
ShouldProcessHTML_IgnoresRaw(raw, ctype) == HeaderContains(ctype, "text/html")

\* !raw && strings.Contains(resp.Header.Get("Content-Type"), "text/html")
ShouldProcessHTML(raw, ctype) == ~raw /\ HeaderContains(ctype, "text/html")

\* rejecting the 4xx and 5xx statuses only
StatusRejected_ErrorsOnly(status) == status >= 400

\* resp.StatusCode != http.StatusOK
StatusRejected(status) == status # StatusOK

\* no call of ProcessHTML, so no library outcome
NoLib == [parseErr |-> FALSE, article |-> "none", convertErr |-> FALSE]

\* body, err := io.ReadAll(resp.Body): the whole body, whatever its length
ReadAll(body) == body

\* the (content, error) fetchURL returns, with what it did to the body: whether
\* it read it, how many bytes of it it held, whether it called ProcessHTML and
\* what the libraries did in that call
fetchURL(resp, raw, lib) ==
  IF StatusRejected(resp.status)
    THEN [content |-> <<>>, err |-> HTTPStatusError(resp.status),
          read |-> FALSE, held |-> 0, transformed |-> FALSE, lib |-> NoLib]
  ELSE IF resp.readErr
    THEN [content |-> <<>>, err |-> ReadError,
          read |-> TRUE, held |-> 0, transformed |-> FALSE, lib |-> NoLib]
  ELSE IF ShouldProcessHTML(raw, resp.ctype)
    THEN [content |-> ProcessHTML(ReadAll(resp.body), lib), err |-> NoErr,
          read |-> TRUE, held |-> Len(ReadAll(resp.body)),
          transformed |-> TRUE, lib |-> lib]
  ELSE [content |-> ReadAll(resp.body), err |-> NoErr,
        read |-> TRUE, held |-> Len(ReadAll(resp.body)),
        transformed |-> FALSE, lib |-> NoLib]

\* FetchURL after fetchURL returned: the error as it is, or the formatted content
FetchURLFinish(fetched, startIndex, maxLength) ==
  IF fetched.err # NoErr
    THEN [content |-> <<>>, err |-> fetched.err, paged |-> FALSE]
    ELSE [content |-> FormatContent(fetched.content, startIndex, maxLength),
          err |-> NoErr, paged |-> TRUE]

\* returning the result whatever the error
ToolResult_WithError(content, err) == [isNil |-> FALSE, text |-> content, err |-> err]

\* handleFetchTool's return: (nil, nil, err) or (&CallToolResult{content}, nil, nil)
ToolResult(content, err) ==
  IF err # NoErr THEN [isNil |-> TRUE, text |-> <<>>, err |-> err]
                 ELSE [isNil |-> FALSE, text |-> content, err |-> NoErr]

(***************************************************************************)
(* What the handler and the fetcher record when metrics are not nil.       *)
(***************************************************************************)
\* only a call that succeeded gives the gauge its unit back
ConcurrentRequestsOnReturn_SuccessOnly(err) == IF err # NoErr THEN 0 ELSE -1

\* defer s.metrics.RecordConcurrentRequestsChange(ctx, -1): runs on every return
ConcurrentRequestsOnReturn(err) == -1

\* every fetch operation counted a success
FetchOperationResult_AlwaysSuccess(err) == "success"

\* result := "success"; if err != nil { result = "error" }
FetchOperationResult(err) == IF err # NoErr THEN "error" ELSE "success"

\* the blocked counter left alone
RobotsCheckRecords_NoBlocked(ok) ==
  IF ok THEN <<"robots_check:allowed">> ELSE <<"robots_check:disallowed">>

\* FetchURL after IsAllowed answered: RecordRobotsCheck with the answer, and
\* RecordRobotsBlocked when the answer is no
RobotsCheckRecords(ok) ==
  IF ok THEN <<"robots_check:allowed">>
        ELSE <<"robots_check:disallowed", "robots_blocked">>

\* fetchURL records the conversion in its ProcessHTML branch only
ConversionRecords(fetched) ==
  IF fetched.transformed THEN <<"html_to_markdown">> ELSE <<>>

\* the entries of a call's record that are x
Count(log, x) == Cardinality({i \in DOMAIN log : log[i] = x})

(***************************************************************************)
(* robots.Checker: the per-origin policy cache behind IsAllowed.           *)
(***************************************************************************)
Origins == {"o1", "o2"}

\* "/u" and "/p/x"
PublicPath == <<"/", "u">>

PrivatePath == <<"/", "p", "/", "x">>

Paths == { PublicPath, PrivatePath }

\* a rule of the agent's group: Disallow (allow = FALSE) or Allow of a path prefix
DisallowPrivate == [allow |-> FALSE, pattern |-> <<"/", "p">>]

\* Allow of the same prefix, Allow of the longer "/p/x", Disallow of "/"
AllowPrivate == [allow |-> TRUE, pattern |-> <<"/", "p">>]

AllowPrivatePage == [allow |-> TRUE, pattern |-> <<"/", "p", "/", "x">>]

DisallowAll == [allow |-> FALSE, pattern |-> <<"/">>]

\* the rule sets an origin's robots.txt holds in the model
RobotsFiles == { {}, {DisallowPrivate} }

\* every robots.txt made of the four rules
AllRobotsFiles == SUBSET { DisallowPrivate, AllowPrivate, AllowPrivatePage, DisallowAll }

\* the lifetime, in ticks, of a parsed policy and of the allow-all policy of a failed fetch
TTLParsed == 2

TTLFailed == 1

PathHasPrefix(path, pattern) ==
  /\ Len(pattern) <= Len(path)
  /\ \A i \in 1..Len(pattern) : path[i] = pattern[i]

\* any matching Disallow blocks
Evaluate_AnyDisallow(rules, path) ==
  ~\E rl \in rules : ~rl.allow /\ PathHasPrefix(path, rl.pattern)

\* the longest matching pattern decides, allow wins a tie, no match allows
Evaluate(rules, path) ==
  LET matching == { rl \in rules : PathHasPrefix(path, rl.pattern) }
      longest  == { rl \in matching :
                      \A other \in matching : Len(other.pattern) <= Len(rl.pattern) }
  IN  matching = {} \/ \E rl \in longest : rl.allow

\* failed: the policy is the allow-all one of a failed fetch
NoPolicy == [state |-> "absent", rules |-> {}, ttl |-> 0, gen |-> 0, failed |-> FALSE]

(***************************************************************************)
(* config.ParseFlags: the flags of the command line and the environment.   *)
(***************************************************************************)
ServerName == "fetch-server"

ServerVersion == "1.0.0"

DefaultUA == "Mozilla/5.0 (compatible; MCPFetchBot/1.0)"

TransportSSE == "sse"

TransportStreamableHTTP == "streamable-http"

\* flag.IntVar(&port, "port", 8080, ...)
DefaultPort == 8080

\* an environment variable that is not set; a set one is <<value>>
Unset == <<>>

\* strconv.Atoi on the values the environment holds in the model: <<n>>, or
\* <<>> for the error
Atoi(s) ==
  CASE s = "0"    -> <<0>>
    [] s = "9000" -> <<9000>>
    [] s = "9191" -> <<9191>>
    [] OTHER      -> <<>>

\* the command line: the value of every flag after flag.Parse()
Flags ==
  [transport : {TransportStreamableHTTP}, port : {DefaultPort, 3000},
   userAgent : {"", "ua"}, ignoreRobots : {FALSE},
   enableOTelMetrics : {FALSE}, enableOTelTracing : {FALSE}, enablePrometheus : BOOLEAN,
   otelServiceName : {"", "svc"}, otelServiceVersion : {"", "2.0"},
   metricsPort : {0, 9090}]

\* the environment: the variables parseConfig looks up
Environments ==
  [TRANSPORT : {Unset, <<"sse">>}, MCP_PORT : {Unset, <<"9000">>, <<"abc">>},
   ENABLE_OTEL_METRICS : {Unset}, ENABLE_OTEL_TRACING : {Unset, <<"true">>},
   OTEL_SERVICE_NAME : {Unset, <<"">>, <<"envsvc">>},
   OTEL_SERVICE_VERSION : {Unset}, ENABLE_PROMETHEUS : {Unset},
   METRICS_PORT : {Unset, <<"0">>, <<"9191">>}]

NoArgs ==
  [flags |-> [transport |-> TransportStreamableHTTP, port |-> DefaultPort,
              userAgent |-> "", ignoreRobots |-> FALSE, enableOTelMetrics |-> FALSE,
              enableOTelTracing |-> FALSE, enablePrometheus |-> FALSE,
              otelServiceName |-> "", otelServiceVersion |-> "", metricsPort |-> 0],
   env |-> [TRANSPORT |-> Unset, MCP_PORT |-> Unset, ENABLE_OTEL_METRICS |-> Unset,
            ENABLE_OTEL_TRACING |-> Unset, OTEL_SERVICE_NAME |-> Unset,
            OTEL_SERVICE_VERSION |-> Unset, ENABLE_PROMETHEUS |-> Unset,
            METRICS_PORT |-> Unset]]

\* if v, ok := os.LookupEnv(name); ok { field = v }
EnvOr(value, field) == IF value # Unset THEN value[1] ELSE field

\* if v, ok := os.LookupEnv(name); ok { field = v == "true" }
EnvTrueOr(value, field) == IF value # Unset THEN value[1] = "true" ELSE field

\* if v, ok := os.LookupEnv(name); ok { if n, err := strconv.Atoi(v); err == nil { field = n } }
EnvIntOr(value, field) ==
  IF value # Unset /\ Atoi(value[1]) # <<>> THEN Atoi(value[1])[1] ELSE field

\* parseConfig: the flags, then the overrides of the environment; the package
\* variables transport and port, and the fields of *config
parseConfig(args) ==
  LET f == args.flags
      e == args.env
  IN  [transport |-> EnvOr(e.TRANSPORT, f.transport),
       port |-> EnvIntOr(e.MCP_PORT, f.port),
       UserAgent |-> f.userAgent,
       IgnoreRobots |-> f.ignoreRobots,
       EnableOTelMetrics |-> EnvTrueOr(e.ENABLE_OTEL_METRICS, f.enableOTelMetrics),
       EnableOTelTracing |-> EnvTrueOr(e.ENABLE_OTEL_TRACING, f.enableOTelTracing),
       OTelServiceName |-> EnvOr(e.OTEL_SERVICE_NAME, f.otelServiceName),
       OTelServiceVersion |-> EnvOr(e.OTEL_SERVICE_VERSION, f.otelServiceVersion),
       EnablePrometheus |-> EnvTrueOr(e.ENABLE_PROMETHEUS, f.enablePrometheus),
       MetricsPort |-> EnvIntOr(e.METRICS_PORT, f.metricsPort)]

\* the default of MetricsPort taken from the port flag, not from the final port
MetricsPortDefault_FromFlag(args, parsed) == args.flags.port

\* if config.MetricsPort == 0 { config.MetricsPort = config.Port }, after
\* config.Port = port
MetricsPortDefault(args, parsed) == parsed.port

\* ParseFlags: parseConfig, then Port and Transport, then the defaults
ParseFlags(args) ==
  LET p == parseConfig(args)
  IN  [Port |-> p.port,
       Transport |-> p.transport,
       UserAgent |-> IF p.UserAgent = "" THEN DefaultUA ELSE p.UserAgent,
       IgnoreRobots |-> p.IgnoreRobots,
       EnableOTelMetrics |-> p.EnableOTelMetrics,
       EnableOTelTracing |-> p.EnableOTelTracing,
       OTelServiceName |-> IF p.OTelServiceName = "" THEN ServerName ELSE p.OTelServiceName,
       OTelServiceVersion |->
         IF p.OTelServiceVersion = "" THEN ServerVersion ELSE p.OTelServiceVersion,
       EnablePrometheus |-> p.EnablePrometheus,
       MetricsPort |-> IF p.MetricsPort = 0 THEN MetricsPortDefault(args, p)
                                            ELSE p.MetricsPort]

NoConfig == ParseFlags(NoArgs)

\* the configurations NewFetchServer is called with: every transport, one of
\* them unsupported, and every choice of the three observability switches
Configs ==
  { [NoConfig EXCEPT !.Transport = t, !.EnableOTelMetrics = m,
                     !.EnableOTelTracing = tr, !.EnablePrometheus = p] :
      t \in {TransportSSE, TransportStreamableHTTP, "stdio"},
      m \in BOOLEAN, tr \in BOOLEAN, p \in BOOLEAN }

(***************************************************************************)
(* observability.Setup and Telemetry.Shutdown                              *)
(***************************************************************************)
\* NewObservabilityConfig: EnablePrometheus is not copied
NewObservabilityConfig(c) ==
  [ServiceName |-> c.OTelServiceName, ServiceVersion |-> c.OTelServiceVersion,
   EnableMetrics |-> c.EnableOTelMetrics, EnableTracing |-> c.EnableOTelTracing]

\* what the OpenTelemetry libraries answer during one Setup and NewMetrics:
\* resource.New, otlptracehttp.New, otlpmetrichttp.New and the meter's
\* instrument constructors each succeed or return an error
SetupOutcomes ==
  [resourceErr : BOOLEAN, tracingErr : BOOLEAN, metricsErr : BOOLEAN,
   newMetricsErr : BOOLEAN]

\* a nil *Telemetry
NilTelemetry == <<>>

\* Setup up to the end of its tracing block: the tracer provider is created,
\* its shutdown function appended and the provider set as the global one
SetupTracing(obs, lib) ==
  IF obs.EnableTracing /\ lib.tracingErr
    THEN [err |-> "failed to setup tracing", TracerProvider |-> FALSE,
          shutdownFuncs |-> <<>>, created |-> {}, global |-> {}]
  ELSE IF obs.EnableTracing
    THEN [err |-> "", TracerProvider |-> TRUE, shutdownFuncs |-> <<"tracer">>,
          created |-> {"tracer"}, global |-> {"tracer"}]
  ELSE [err |-> "", TracerProvider |-> FALSE, shutdownFuncs |-> <<>>,
        created |-> {}, global |-> {}]

\* Setup: the *Telemetry and error it returns, the providers it created and
\* the ones it installed as global providers
Setup(obs, lib) ==
  LET t == SetupTracing(obs, lib)
  IN  IF lib.resourceErr
        THEN [telemetry |-> NilTelemetry, err |-> "failed to create resource",
              created |-> {}, global |-> {}]
      ELSE IF t.err # ""
        THEN [telemetry |-> NilTelemetry, err |-> t.err, created |-> {}, global |-> {}]
      ELSE IF obs.EnableMetrics /\ lib.metricsErr
        THEN [telemetry |-> NilTelemetry, err |-> "failed to setup metrics",
              created |-> t.created, global |-> t.global]
      ELSE IF obs.EnableMetrics
        THEN [telemetry |-> <<[TracerProvider |-> t.TracerProvider, MeterProvider |-> TRUE,
                               shutdownFuncs |-> Append(t.shutdownFuncs, "meter")]>>,
              err |-> "", created |-> t.created \cup {"meter"},
              global |-> t.global \cup {"meter"}]
      ELSE [telemetry |-> <<[TracerProvider |-> t.TracerProvider, MeterProvider |-> FALSE,
                             shutdownFuncs |-> t.shutdownFuncs]>>,
            err |-> "", created |-> t.created, global |-> t.global]

\* stopping at the first shutdown function that returns an error
ShutdownCalls_StopAtError(funcs, fails) ==
  LET bad == { i \in 1..Len(funcs) : fails[i] }
  IN  IF bad = {} THEN funcs
      ELSE SubSeq(funcs, 1, CHOOSE i \in bad : \A j \in bad : i <= j)

\* for _, shutdown := range t.shutdownFuncs { if err := shutdown(ctx); err != nil
\* { log } }: the functions Telemetry.Shutdown calls, in order; fails[i] says
\* whether the i-th returns an error
ShutdownCalls(funcs, fails) == funcs

\* Telemetry.Shutdown's return value: return nil
ShutdownReturn(funcs, fails) == "nil"

\* calling Setup whatever the three switches say
NewFetchServerResult_AlwaysObserves(c, lib) ==
  LET s == Setup(NewObservabilityConfig(c), lib)
  IN  [config |-> c,
       fetcher |-> TRUE,
       mcpServer |-> TRUE,
       telemetry |-> s.telemetry,
       metrics |-> s.err = "" /\ s.telemetry[1].MeterProvider /\ ~lib.newMetricsErr,
       traceHelper |-> s.err = "" /\ s.telemetry[1].TracerProvider]

\* the FetchServer NewFetchServer returns; a pointer field is TRUE for non-nil
NewFetchServerResult(c, lib) ==
  LET observed == c.EnableOTelMetrics \/ c.EnableOTelTracing \/ c.EnablePrometheus
      s        == Setup(NewObservabilityConfig(c), lib)
      ok       == observed /\ s.err = ""
  IN  [config |-> c,
       fetcher |-> TRUE,
       mcpServer |-> TRUE,
       telemetry |-> IF observed THEN s.telemetry ELSE NilTelemetry,
       metrics |-> ok /\ s.telemetry[1].MeterProvider /\ ~lib.newMetricsErr,
       traceHelper |-> ok /\ s.telemetry[1].TracerProvider]

\* starting the streamable HTTP server for every transport but "sse"
StartOutcome_FallsBackToHTTP(transport) ==
  IF transport = TransportSSE
    THEN [listener |-> TransportSSE, err |-> <<>>]
    ELSE [listener |-> TransportStreamableHTTP, err |-> <<>>]

\* Start's switch on fs.config.Transport: the listener it starts, or the error
\* it returns
StartOutcome(transport) ==
  IF transport = TransportSSE
    THEN [listener |-> TransportSSE, err |-> <<>>]
  ELSE IF transport = TransportStreamableHTTP
    THEN [listener |-> TransportStreamableHTTP, err |-> <<>>]
  ELSE [listener |-> "none", err |-> <<"unsupported transport type: ", transport>>]

NoFetchServer ==
  [config |-> NoConfig, fetcher |-> FALSE, mcpServer |-> FALSE,
   telemetry |-> NilTelemetry, metrics |-> FALSE, traceHelper |-> FALSE]

(***************************************************************************)
(* State.                                                                  *)
(***************************************************************************)
Reqs == 1..NumReqs

\* FetchParams: the URL as origin and path, raw, start_index, max_length
PageArgs == { <<Nil, Nil>>, <<Ptr(1), Ptr(2)>> }

Params == [origin : Origins, path : Paths, raw : BOOLEAN, page : PageArgs]

NoParams == [origin |-> "o1", path |-> PublicPath, raw |-> FALSE, page |-> <<Nil, Nil>>]

NoResponse == [status |-> 0, ctype |-> <<>>, body |-> <<>>, readErr |-> FALSE]

Responses == [status : Statuses, ctype : ContentTypes, body : Bodies, readErr : BOOLEAN]

NoFetched ==
  [content |-> <<>>, err |-> NoErr, read |-> FALSE, held |-> 0,
   transformed |-> FALSE, lib |-> NoLib]

NoReturn == [content |-> <<>>, err |-> NoErr, paged |-> FALSE]

NoResult == [isNil |-> TRUE, text |-> <<>>, err |-> NoErr]

VARIABLES
  ignoreRobots, \* config.IgnoreRobots, as given to robots.NewChecker
  cache,        \* the robots checker's origin cache: origin -> policy or fetch in progress
  expiries,     \* per origin, the policies that expired so far
  robotsFetches,\* per origin, the robots.txt fetches started so far
  ticks,        \* clock ticks so far
  pc,           \* per call, where it is
  params,       \* per call, its FetchParams
  allowed,      \* per call, IsAllowed's answer: "unknown", "yes", "no"
  usedGen,      \* per call, the generation of the policy IsAllowed evaluated (0: none)
  usedRules,    \* per call, the rules of that policy
  hops,         \* per call, the redirects the running httpClient.Do followed
  robotsGets,   \* per call, robots.txt GETs sent on the wire
  contentGets,  \* per call, content GETs sent on the wire
  doCalls,      \* per call, calls of httpClient.Do for the content
  response,     \* per call, the final response httpClient.Do returned
  fetched,      \* per call, what fetchURL returned and did
  returned,     \* per call, what FetchURL returned
  result,       \* per call, what handleFetchTool returned
  cancelled,    \* per call, whether the ctx handleFetchTool was called with is cancelled
  fmtArgs,      \* FormatContent on its own: the arguments of the call
  fmtPc,        \* "call" before FormatContent ran, "ret" after, "panic" if it panicked
  fmtOut,       \* its result
  srvPc,        \* the server's life: "off", or where main is
  osArgs,       \* the command line and environment ParseFlags reads
  cfg,          \* the config.Config ParseFlags returned
  fs,           \* the FetchServer NewFetchServer returned
  setupErr,     \* the error observability.Setup returned ("": none, or not called)
  otelGlobal,   \* the providers installed as global OpenTelemetry providers
  running,      \* the providers created and not shut down
  shutdownLog,  \* the shutdown functions Telemetry.Shutdown called, with their outcome
  shutdownRet,  \* what FetchServer.Shutdown returned ("none": not called)
  listener,     \* the HTTP listener Start started ("none": none)
  startErr,     \* the error Start returned (<<>>: none)
  metrics,      \* whether the server the calls go to has metrics: fs.metrics, which
                \* is the fetcher's f.metrics, is not nil
  concurrentRequests, \* the gauge Metrics.ConcurrentRequests
  fetchCount,   \* the counter Metrics.FetchCount, over all attributes
  fetchErrors,  \* the counter Metrics.FetchErrors
  mcpErrorCount,\* the counter Metrics.MCPErrorCount
  responseSizes,\* the calls of RecordFetchResponseSize so far
  robotsBlocked,\* the counter Metrics.RobotsBlockedCount
  recorded      \* per call, what FetchURL and fetchURL recorded so far, in order

robotsVars == <<cache, expiries, robotsFetches, ticks>>

callVars == <<pc, params, allowed, usedGen, usedRules, hops, robotsGets, contentGets,
              doCalls, response, fetched, returned, result, cancelled>>

fmtVars == <<fmtArgs, fmtPc, fmtOut>>

srvVars == <<srvPc, osArgs, cfg, fs, setupErr, otelGlobal, running, shutdownLog,
             shutdownRet, listener, startErr>>

metricVars == <<concurrentRequests, fetchCount, fetchErrors, mcpErrorCount, responseSizes,
                robotsBlocked, recorded>>

vars == <<ignoreRobots, metrics, robotsVars, callVars, fmtVars, srvVars, metricVars>>

(***************************************************************************)
(* The state after NewFetchServer, no call made yet.                       *)
(***************************************************************************)
InitServer ==
  /\ cache = [o \in Origins |-> NoPolicy]
  /\ expiries = [o \in Origins |-> 0]
  /\ robotsFetches = [o \in Origins |-> 0]
  /\ ticks = 0
  /\ concurrentRequests = 0
  /\ fetchCount = 0
  /\ fetchErrors = 0
  /\ mcpErrorCount = 0
  /\ responseSizes = 0
  /\ robotsBlocked = 0
  /\ recorded = [r \in Reqs |-> <<>>]
  /\ pc = [r \in Reqs |-> "idle"]
  /\ params = [r \in Reqs |-> NoParams]
  /\ allowed = [r \in Reqs |-> "unknown"]
  /\ usedGen = [r \in Reqs |-> 0]
  /\ usedRules = [r \in Reqs |-> {}]
  /\ hops = [r \in Reqs |-> 0]
  /\ robotsGets = [r \in Reqs |-> 0]
  /\ contentGets = [r \in Reqs |-> 0]
  /\ doCalls = [r \in Reqs |-> 0]
  /\ response = [r \in Reqs |-> NoResponse]
  /\ fetched = [r \in Reqs |-> NoFetched]
  /\ returned = [r \in Reqs |-> NoReturn]
  /\ result = [r \in Reqs |-> NoResult]
  /\ cancelled = [r \in Reqs |-> FALSE]

\* main has not run: the server's life is not part of the behaviour
InitNoMain ==
  /\ srvPc = "off"
  /\ osArgs = NoArgs
  /\ cfg = NoConfig
  /\ fs = NoFetchServer
  /\ setupErr = ""
  /\ otelGlobal = {}
  /\ running = {}
  /\ shutdownLog = <<>>
  /\ shutdownRet = "none"
  /\ listener = "none"
  /\ startErr = <<>>

Init ==
  /\ ignoreRobots \in BOOLEAN
  /\ metrics \in BOOLEAN
  /\ InitServer
  /\ InitNoMain
  /\ fmtArgs = [content |-> <<>>, startIndex |-> Nil, maxLength |-> Nil]
  /\ fmtPc = "off"
  /\ fmtOut = <<>>

(***************************************************************************)
(* server.handleFetchTool, up to its call of FetchURL.                     *)
(***************************************************************************)
HandleFetchToolCall(r, inputs) ==
  /\ pc[r] = "idle"
  /\ \E p \in inputs : params' = [params EXCEPT ![r] = p]
  /\ pc' = [pc EXCEPT ![r] = "IsAllowed"]
  /\ IF metrics
       THEN /\ concurrentRequests' = concurrentRequests + 1
            /\ recorded' = [recorded EXCEPT ![r] = <<"robots_check:checking">>]
       ELSE UNCHANGED <<concurrentRequests, recorded>>
  /\ UNCHANGED <<fetchCount, fetchErrors, mcpErrorCount, responseSizes, robotsBlocked>>
  /\ UNCHANGED <<ignoreRobots, metrics, robotsVars, fmtVars, srvVars, allowed, usedGen,
                 usedRules, hops,
                 robotsGets, contentGets, doCalls, response, fetched, returned, result, cancelled>>

(***************************************************************************)
(* robots.Checker.IsAllowed                                                *)
(***************************************************************************)
\* the bypass flag: true without any network access
IsAllowedBypass(r) ==
  /\ pc[r] = "IsAllowed"
  /\ ignoreRobots
  /\ allowed' = [allowed EXCEPT ![r] = "yes"]
  /\ pc' = [pc EXCEPT ![r] = "gate"]
  /\ UNCHANGED <<ignoreRobots, metrics, robotsVars, fmtVars, srvVars, metricVars, params,
                 usedGen, usedRules, hops,
                 robotsGets, contentGets, doCalls, response, fetched, returned, result, cancelled>>

\* a fresh policy is cached: evaluate against it
IsAllowedCached(r) ==
  LET entry == cache[params[r].origin]
  IN  /\ pc[r] = "IsAllowed"
      /\ ~ignoreRobots
      /\ entry.state = "policy"
      /\ allowed' = [allowed EXCEPT
                       ![r] = IF Evaluate(entry.rules, params[r].path) THEN "yes" ELSE "no"]
      /\ usedGen' = [usedGen EXCEPT ![r] = entry.gen]
      /\ usedRules' = [usedRules EXCEPT ![r] = entry.rules]
      /\ pc' = [pc EXCEPT ![r] = "gate"]
      /\ UNCHANGED <<ignoreRobots, metrics, robotsVars, fmtVars, srvVars, metricVars, params,
                     hops, robotsGets,
                     contentGets, doCalls, response, fetched, returned, result, cancelled>>

\* fetching also while a fetch is in flight
MustFetch_NoLock(entry) == entry.state \in {"absent", "fetching"}

\* whether a caller finding this cache entry fetches robots.txt itself
MustFetch(entry) == entry.state = "absent"

\* fetching robots.txt whatever the bypass flag says
IsAllowedMiss_IgnoresFlag(r) ==
  LET o == params[r].origin
  IN  /\ pc[r] = "IsAllowed"
      /\ MustFetch(cache[o])
      /\ cache' = [cache EXCEPT ![o].state = "fetching"]
      /\ robotsFetches' = [robotsFetches EXCEPT ![o] = @ + 1]
      /\ robotsGets' = [robotsGets EXCEPT ![r] = @ + 1]
      /\ pc' = [pc EXCEPT ![r] = "robots_fetch"]
      /\ UNCHANGED <<ignoreRobots, metrics, expiries, ticks, fmtVars, srvVars, metricVars,
                     params, allowed, usedGen,
                     usedRules, hops, contentGets, doCalls, response, fetched, returned,
                     result, cancelled>>

\* no policy, or an expired one: this caller fetches <origin>/robots.txt
IsAllowedMiss(r) ==
  LET o == params[r].origin
  IN  /\ pc[r] = "IsAllowed"
      /\ ~ignoreRobots
      /\ MustFetch(cache[o])
      /\ cache' = [cache EXCEPT ![o].state = "fetching"]
      /\ robotsFetches' = [robotsFetches EXCEPT ![o] = @ + 1]
      /\ robotsGets' = [robotsGets EXCEPT ![r] = @ + 1]
      /\ pc' = [pc EXCEPT ![r] = "robots_fetch"]
      /\ UNCHANGED <<ignoreRobots, metrics, expiries, ticks, fmtVars, srvVars, metricVars,
                     params, allowed, usedGen,
                     usedRules, hops, contentGets, doCalls, response, fetched, returned,
                     result, cancelled>>

\* a fetch for the origin is in flight: block on it
IsAllowedWait(r) ==
  /\ pc[r] = "IsAllowed"
  /\ ~ignoreRobots
  /\ ~MustFetch(cache[params[r].origin])
  /\ cache[params[r].origin].state = "fetching"
  /\ pc' = [pc EXCEPT ![r] = "robots_wait"]
  /\ UNCHANGED <<ignoreRobots, metrics, robotsVars, fmtVars, srvVars, metricVars, params,
                 allowed, usedGen, usedRules,
                 hops, robotsGets, contentGets, doCalls, response, fetched, returned,
                 result, cancelled>>

\* the client follows a redirect of the robots.txt GET
RobotsRedirect(r) ==
  /\ pc[r] = "robots_fetch"
  /\ hops[r] < MaxRedirects
  /\ hops' = [hops EXCEPT ![r] = @ + 1]
  /\ robotsGets' = [robotsGets EXCEPT ![r] = @ + 1]
  /\ UNCHANGED <<ignoreRobots, metrics, robotsVars, fmtVars, srvVars, metricVars, pc, params,
                 allowed, usedGen,
                 usedRules, contentGets, doCalls, response, fetched, returned, result, cancelled>>

\* the robots.txt fetch ends with this policy: cache it, and answer the caller that
\* fetched and the callers blocked on the fetch
RobotsFetched(r, rules, ttl, failed) ==
  LET o      == params[r].origin
      gen    == robotsFetches[o]
      served == {r} \cup { q \in Reqs : pc[q] = "robots_wait" /\ params[q].origin = o }
  IN  /\ pc[r] = "robots_fetch"
      /\ cache' = [cache EXCEPT
                     ![o] = [state |-> "policy", rules |-> rules, ttl |-> ttl,
                             gen |-> gen, failed |-> failed]]
      /\ allowed' = [q \in Reqs |->
                       IF q \in served
                         THEN IF Evaluate(rules, params[q].path) THEN "yes" ELSE "no"
                         ELSE allowed[q]]
      /\ usedGen' = [q \in Reqs |-> IF q \in served THEN gen ELSE usedGen[q]]
      /\ usedRules' = [q \in Reqs |-> IF q \in served THEN rules ELSE usedRules[q]]
      /\ pc' = [q \in Reqs |-> IF q \in served THEN "gate" ELSE pc[q]]
      /\ hops' = [hops EXCEPT ![r] = 0]
      /\ UNCHANGED <<ignoreRobots, metrics, expiries, robotsFetches, ticks, fmtVars, srvVars,
                     metricVars, params,
                     robotsGets, contentGets, doCalls, response, fetched, returned,
                     result, cancelled>>

\* robots.txt fetched and parsed
RobotsFetchOK(r, files) == \E rules \in files : RobotsFetched(r, rules, TTLParsed, FALSE)

\* the allow-all policy of a failed fetch kept as long as a parsed one
RobotsFetchFailed_SameTTL(r) == RobotsFetched(r, {}, TTLParsed, TRUE)

\* network error, non-200 or unparseable body: allow all, for a shorter time
RobotsFetchFailed(r) == RobotsFetched(r, {}, TTLFailed, TRUE)

\* time passes: cached policies age, and one whose TTL ran out is dropped
Tick ==
  /\ ticks < MaxTicks
  /\ ticks' = ticks + 1
  /\ cache' = [o \in Origins |->
                 IF cache[o].state # "policy" THEN cache[o]
                 ELSE IF cache[o].ttl > 1 THEN [cache[o] EXCEPT !.ttl = @ - 1]
                 ELSE NoPolicy]
  /\ expiries' = [o \in Origins |->
                    IF cache[o].state = "policy" /\ cache[o].ttl <= 1
                      THEN expiries[o] + 1 ELSE expiries[o]]
  /\ UNCHANGED <<ignoreRobots, metrics, robotsFetches, fmtVars, srvVars, metricVars, callVars>>

(***************************************************************************)
(* fetcher.FetchURL and fetcher.fetchURL                                   *)
(***************************************************************************)
\* fetching whatever IsAllowed answered
FetchURLGate_NoCheck(r, ok) ==
  /\ doCalls' = [doCalls EXCEPT ![r] = @ + 1]
  /\ contentGets' = [contentGets EXCEPT ![r] = @ + 1]
  /\ pc' = [pc EXCEPT ![r] = "Do"]
  /\ UNCHANGED returned

\* FetchURL once IsAllowed answered: refuse, or call fetchURL, which sends the GET
FetchURLGate(r, ok) ==
  IF ~ok
    THEN /\ returned' = [returned EXCEPT
                           ![r] = [content |-> <<>>, err |-> RobotsDisallowed, paged |-> FALSE]]
         /\ pc' = [pc EXCEPT ![r] = "FetchURL_ret"]
         /\ UNCHANGED <<doCalls, contentGets>>
    ELSE /\ doCalls' = [doCalls EXCEPT ![r] = @ + 1]
         /\ contentGets' = [contentGets EXCEPT ![r] = @ + 1]
         /\ pc' = [pc EXCEPT ![r] = "Do"]
         /\ UNCHANGED returned

FetchURLAfterRobots(r) ==
  /\ pc[r] = "gate"
  /\ FetchURLGate(r, allowed[r] = "yes")
  /\ IF metrics
       THEN /\ recorded' = [recorded EXCEPT
                              ![r] = recorded[r] \o RobotsCheckRecords(allowed[r] = "yes")]
            /\ robotsBlocked' = robotsBlocked
                 + Count(RobotsCheckRecords(allowed[r] = "yes"), "robots_blocked")
       ELSE UNCHANGED <<recorded, robotsBlocked>>
  /\ UNCHANGED <<concurrentRequests, fetchCount, fetchErrors, mcpErrorCount, responseSizes>>
  /\ UNCHANGED <<ignoreRobots, metrics, robotsVars, fmtVars, srvVars, params, allowed,
                 usedGen, usedRules,
                 hops, robotsGets, response, fetched, result, cancelled>>

\* the client follows a redirect of the content GET
DoRedirect(r) ==
  /\ pc[r] = "Do"
  /\ hops[r] < MaxRedirects
  /\ hops' = [hops EXCEPT ![r] = @ + 1]
  /\ contentGets' = [contentGets EXCEPT ![r] = @ + 1]
  /\ UNCHANGED <<ignoreRobots, metrics, robotsVars, fmtVars, srvVars, metricVars, pc, params,
                 allowed, usedGen,
                 usedRules, robotsGets, doCalls, response, fetched, returned, result, cancelled>>

\* calling httpClient.Do once more after an error
fetchURLOnError_Retry(r) ==
  /\ doCalls' = [doCalls EXCEPT ![r] = @ + 1]
  /\ contentGets' = [contentGets EXCEPT ![r] = @ + 1]
  /\ hops' = [hops EXCEPT ![r] = 0]
  /\ UNCHANGED <<fetched, returned, pc>>

\* fetchURL when httpClient.Do returned an error: the error, no retry
fetchURLOnError(r) ==
  /\ fetched' = [fetched EXCEPT
                   ![r] = [content |-> <<>>, err |-> NetworkError,
                           read |-> FALSE, held |-> 0,
                           transformed |-> FALSE, lib |-> NoLib]]
  /\ returned' = [returned EXCEPT
                    ![r] = FetchURLFinish(fetched'[r], params[r].page[1], params[r].page[2])]
  /\ pc' = [pc EXCEPT ![r] = "FetchURL_ret"]
  /\ UNCHANGED <<doCalls, contentGets, hops>>

\* httpClient.Do fails: network error, timeout, or too many redirects
DoError(r) ==
  /\ pc[r] = "Do"
  /\ fetchURLOnError(r)
  /\ UNCHANGED <<ignoreRobots, metrics, robotsVars, fmtVars, srvVars, metricVars, params,
                 allowed, usedGen, usedRules,
                 robotsGets, response, result, cancelled>>

\* applying start_index and max_length to the body as received instead of to
\* what fetchURL made of it
DoResponse_FormatsRawBody(r, answers, libs) ==
  /\ pc[r] = "Do"
  /\ \E resp \in answers, lib \in libs :
       /\ response' = [response EXCEPT ![r] = resp]
       /\ fetched' = [fetched EXCEPT ![r] = fetchURL(resp, params[r].raw, lib)]
  /\ returned' = [returned EXCEPT
                    ![r] = FetchURLFinish([fetched'[r] EXCEPT !.content = response'[r].body],
                                          params[r].page[1], params[r].page[2])]
  /\ pc' = [pc EXCEPT ![r] = "FetchURL_ret"]
  /\ IF metrics
       THEN recorded' = [recorded EXCEPT ![r] = recorded[r] \o ConversionRecords(fetched'[r])]
       ELSE UNCHANGED recorded
  /\ UNCHANGED <<concurrentRequests, fetchCount, fetchErrors, mcpErrorCount, responseSizes,
                 robotsBlocked>>
  /\ UNCHANGED <<ignoreRobots, metrics, robotsVars, fmtVars, srvVars, params, allowed, usedGen,
                 usedRules, hops, robotsGets, contentGets, doCalls, result, cancelled>>

\* httpClient.Do returns a response: the rest of fetchURL, then of FetchURL
DoResponse(r, answers, libs) ==
  /\ pc[r] = "Do"
  /\ \E resp \in answers, lib \in libs :
       /\ response' = [response EXCEPT ![r] = resp]
       /\ fetched' = [fetched EXCEPT ![r] = fetchURL(resp, params[r].raw, lib)]
  /\ returned' = [returned EXCEPT
                    ![r] = FetchURLFinish(fetched'[r], params[r].page[1], params[r].page[2])]
  /\ pc' = [pc EXCEPT ![r] = "FetchURL_ret"]
  /\ IF metrics
       THEN recorded' = [recorded EXCEPT ![r] = recorded[r] \o ConversionRecords(fetched'[r])]
       ELSE UNCHANGED recorded
  /\ UNCHANGED <<concurrentRequests, fetchCount, fetchErrors, mcpErrorCount, responseSizes,
                 robotsBlocked>>
  /\ UNCHANGED <<ignoreRobots, metrics, robotsVars, fmtVars, srvVars, params, allowed, usedGen,
                 usedRules, hops, robotsGets, contentGets, doCalls, result, cancelled>>

(***************************************************************************)
(* server.handleFetchTool, from FetchURL's return. The call's locals are   *)
(* gone once it returned: only its result is left.                         *)
(***************************************************************************)
HandleFetchToolReturn(r) ==
  /\ pc[r] = "FetchURL_ret"
  /\ result' = [result EXCEPT ![r] = ToolResult(returned[r].content, returned[r].err)]
  /\ pc' = [pc EXCEPT ![r] = "done"]
  /\ params' = [params EXCEPT ![r] = NoParams]
  /\ allowed' = [allowed EXCEPT ![r] = "unknown"]
  /\ usedGen' = [usedGen EXCEPT ![r] = 0]
  /\ usedRules' = [usedRules EXCEPT ![r] = {}]
  /\ hops' = [hops EXCEPT ![r] = 0]
  /\ robotsGets' = [robotsGets EXCEPT ![r] = 0]
  /\ contentGets' = [contentGets EXCEPT ![r] = 0]
  /\ doCalls' = [doCalls EXCEPT ![r] = 0]
  /\ response' = [response EXCEPT ![r] = NoResponse]
  /\ fetched' = [fetched EXCEPT ![r] = NoFetched]
  /\ returned' = [returned EXCEPT ![r] = NoReturn]
  /\ cancelled' = [cancelled EXCEPT ![r] = FALSE]
  /\ recorded' = [recorded EXCEPT ![r] = <<>>]
  /\ IF metrics
       THEN /\ fetchCount' = fetchCount + 1
            /\ fetchErrors' = fetchErrors
                 + (IF FetchOperationResult(returned[r].err) = "error" THEN 1 ELSE 0)
            /\ mcpErrorCount' = mcpErrorCount + (IF returned[r].err # NoErr THEN 1 ELSE 0)
            /\ responseSizes' = responseSizes + (IF returned[r].err = NoErr THEN 1 ELSE 0)
            /\ concurrentRequests' = concurrentRequests
                 + ConcurrentRequestsOnReturn(returned[r].err)
       ELSE UNCHANGED <<fetchCount, fetchErrors, mcpErrorCount, responseSizes,
                        concurrentRequests>>
  /\ UNCHANGED robotsBlocked
  /\ UNCHANGED <<ignoreRobots, metrics, robotsVars, fmtVars, srvVars>>

(***************************************************************************)
(* The caller cancels the ctx of a call that is in FetchURL, waiting for   *)
(* the robots.txt fetch or for httpClient.Do. handleFetchTool hands        *)
(* FetchURL the request only; FetchURL and fetchURL make their own         *)
(* context.Background() for tracing, IsAllowed takes the URL only and the  *)
(* GET is built by http.NewRequest without a context: no step of the call  *)
(* reads ctx.                                                              *)
(***************************************************************************)
Cancel(r) ==
  /\ pc[r] \in {"robots_fetch", "robots_wait", "Do"}
  /\ ~cancelled[r]
  /\ cancelled' = [cancelled EXCEPT ![r] = TRUE]
  /\ UNCHANGED <<ignoreRobots, metrics, robotsVars, fmtVars, srvVars, metricVars, pc, params,
                 allowed, usedGen,
                 usedRules, hops, robotsGets, contentGets, doCalls, response, fetched,
                 returned, result>>

(***************************************************************************)
(* Concurrent calls. The calls share the robots cache only, so here each   *)
(* call's parameters and the server's answers are drawn from a few cases   *)
(* and no redirect is answered; SpecOneCall draws them from all.           *)
(***************************************************************************)
FewParams == [origin : Origins, path : {PrivatePath}, raw : {FALSE}, page : {<<Nil, Nil>>}]

FewResponses ==
  { [status |-> StatusOK, ctype |-> <<"text/html">>, body |-> HtmlPage, readErr |-> FALSE] }

FewLibOutcomes == { [parseErr |-> FALSE, article |-> "ok", convertErr |-> FALSE] }

Next ==
  \/ \E r \in Reqs : HandleFetchToolCall(r, FewParams)
  \/ \E r \in Reqs : IsAllowedBypass(r)
  \/ \E r \in Reqs : IsAllowedCached(r)
  \/ \E r \in Reqs : IsAllowedMiss(r)
  \/ \E r \in Reqs : IsAllowedWait(r)
  \/ \E r \in Reqs : RobotsFetchOK(r, RobotsFiles)
  \/ \E r \in Reqs : RobotsFetchFailed(r)
  \/ Tick
  \/ \E r \in Reqs : FetchURLAfterRobots(r)
  \/ \E r \in Reqs : DoError(r)
  \/ \E r \in Reqs : DoResponse(r, FewResponses, FewLibOutcomes)
  \/ \E r \in Reqs : HandleFetchToolReturn(r)

Spec == Init /\ [][Next]_vars

(***************************************************************************)
(* One call, with every parameter and every answer of the server.          *)
(***************************************************************************)
TheCall == CHOOSE r \in Reqs : \A q \in Reqs : r <= q

NextOneCall ==
  \/ HandleFetchToolCall(TheCall, Params)
  \/ IsAllowedBypass(TheCall)
  \/ IsAllowedMiss(TheCall)
  \/ RobotsRedirect(TheCall)
  \/ RobotsFetchOK(TheCall, AllRobotsFiles)
  \/ RobotsFetchFailed(TheCall)
  \/ FetchURLAfterRobots(TheCall)
  \/ DoRedirect(TheCall)
  \/ DoError(TheCall)
  \/ DoResponse(TheCall, Responses, LibOutcomes)
  \/ HandleFetchToolReturn(TheCall)
  \/ Cancel(TheCall)

SpecOneCall == Init /\ [][NextOneCall]_vars

(***************************************************************************)
(* FormatContent on its own: every content, start_index and max_length     *)
(* within the bounds.                                                      *)
(***************************************************************************)
OptIndex == { Nil } \cup { Ptr(v) : v \in 0..MaxIndex }

FormatArgs == [content : StringsUpTo(MaxChars), startIndex : OptIndex, maxLength : OptIndex]

InitFormat ==
  /\ ignoreRobots = FALSE
  /\ metrics = FALSE
  /\ InitServer
  /\ InitNoMain
  /\ fmtArgs \in FormatArgs
  /\ fmtPc = "call"
  /\ fmtOut = <<>>

CallFormatContent ==
  /\ fmtPc = "call"
  /\ IF FormatContentPanics(fmtArgs.content, fmtArgs.startIndex, fmtArgs.maxLength)
       THEN fmtPc' = "panic" /\ fmtOut' = <<>>
       ELSE /\ fmtPc' = "ret"
            /\ fmtOut' = FormatContent(fmtArgs.content, fmtArgs.startIndex,
                                       fmtArgs.maxLength)
  /\ UNCHANGED <<fmtArgs, ignoreRobots, metrics, robotsVars, callVars, srvVars, metricVars>>

NextFormat == CallFormatContent

SpecFormat == InitFormat /\ [][NextFormat]_vars

(***************************************************************************)
(* main: ParseFlags, NewFetchServer, Start, Shutdown. SpecConfig runs      *)
(* ParseFlags on every command line and environment of the model;          *)
(* SpecServer builds, starts and shuts down a server for every             *)
(* configuration in Configs.                                               *)
(***************************************************************************)
CallParseFlags ==
  /\ srvPc = "parse"
  /\ cfg' = ParseFlags(osArgs)
  /\ srvPc' = "parsed"
  /\ UNCHANGED <<ignoreRobots, metrics, robotsVars, callVars, fmtVars, metricVars, osArgs,
                 fs, setupErr,
                 otelGlobal, running, shutdownLog, shutdownRet, listener, startErr>>

InitConfig ==
  /\ ignoreRobots = FALSE
  /\ metrics = FALSE
  /\ InitServer
  /\ fmtArgs = [content |-> <<>>, startIndex |-> Nil, maxLength |-> Nil]
  /\ fmtPc = "off"
  /\ fmtOut = <<>>
  /\ srvPc = "parse"
  /\ osArgs \in [flags : Flags, env : Environments]
  /\ cfg = NoConfig
  /\ fs = NoFetchServer
  /\ setupErr = ""
  /\ otelGlobal = {}
  /\ running = {}
  /\ shutdownLog = <<>>
  /\ shutdownRet = "none"
  /\ listener = "none"
  /\ startErr = <<>>

NextConfig == CallParseFlags

SpecConfig == InitConfig /\ [][NextConfig]_vars

\* NewFetchServer(cfg): Setup is called when one of the three switches is set
CallNewFetchServer ==
  /\ srvPc = "new"
  /\ \E lib \in SetupOutcomes :
       LET observed == cfg.EnableOTelMetrics \/ cfg.EnableOTelTracing \/ cfg.EnablePrometheus
           s        == Setup(NewObservabilityConfig(cfg), lib)
       IN  /\ fs' = NewFetchServerResult(cfg, lib)
           /\ setupErr' = IF observed THEN s.err ELSE ""
           /\ otelGlobal' = IF observed THEN s.global ELSE {}
           /\ running' = IF observed THEN s.created ELSE {}
  /\ srvPc' = "built"
  /\ UNCHANGED <<ignoreRobots, metrics, robotsVars, callVars, fmtVars, metricVars, osArgs,
                 cfg, shutdownLog,
                 shutdownRet, listener, startErr>>

\* fs.Start(), in main's goroutine
CallStart ==
  /\ srvPc \in {"built", "down"}
  /\ listener = "none"
  /\ startErr = <<>>
  /\ listener' = StartOutcome(fs.config.Transport).listener
  /\ startErr' = StartOutcome(fs.config.Transport).err
  /\ UNCHANGED <<ignoreRobots, metrics, robotsVars, callVars, fmtVars, metricVars, srvPc,
                 osArgs, cfg, fs,
                 setupErr, otelGlobal, running, shutdownLog, shutdownRet>>

\* fs.Shutdown(ctx): Telemetry.Shutdown when fs.telemetry is not nil
CallShutdown ==
  /\ srvPc = "built"
  /\ srvPc' = "down"
  /\ IF fs.telemetry # NilTelemetry
       THEN LET funcs == fs.telemetry[1].shutdownFuncs
            IN  \E fails \in [1..Len(funcs) -> BOOLEAN] :
                  LET calls == ShutdownCalls(funcs, fails)
                  IN  /\ shutdownLog' = [i \in 1..Len(calls) |->
                                           [fn |-> calls[i], failed |-> fails[i]]]
                      /\ running' = running \ { calls[i] : i \in 1..Len(calls) }
                      /\ shutdownRet' = ShutdownReturn(funcs, fails)
       ELSE /\ shutdownRet' = "nil"
            /\ UNCHANGED <<shutdownLog, running>>
  /\ UNCHANGED <<ignoreRobots, metrics, robotsVars, callVars, fmtVars, metricVars, osArgs,
                 cfg, fs, setupErr,
                 otelGlobal, listener, startErr>>

InitMain ==
  /\ ignoreRobots = FALSE
  /\ metrics = FALSE
  /\ InitServer
  /\ fmtArgs = [content |-> <<>>, startIndex |-> Nil, maxLength |-> Nil]
  /\ fmtPc = "off"
  /\ fmtOut = <<>>
  /\ srvPc = "new"
  /\ osArgs = NoArgs
  /\ cfg \in Configs
  /\ fs = NoFetchServer
  /\ setupErr = ""
  /\ otelGlobal = {}
  /\ running = {}
  /\ shutdownLog = <<>>
  /\ shutdownRet = "none"
  /\ listener = "none"
  /\ startErr = <<>>

NextServer ==
  \/ CallNewFetchServer
  \/ CallStart
  \/ CallShutdown

SpecServer == InitMain /\ [][NextServer]_vars

(***************************************************************************)
(* The claims.                                                             *)
(***************************************************************************)
Returning(r) == pc[r] = "FetchURL_ret"

\* C1: a call IsAllowed answered false for sends no content GET, never calls
\* httpClient.Do, and FetchURL returns an error with empty content; a content GET
\* is only ever sent by a call IsAllowed answered true for
C1_DisallowedNeverFetched ==
  \A r \in Reqs :
    /\ allowed[r] = "no" => contentGets[r] = 0 /\ doCalls[r] = 0
    /\ allowed[r] = "no" /\ Returning(r) =>
         returned[r].err = RobotsDisallowed /\ returned[r].content = <<>>
    /\ contentGets[r] > 0 => allowed[r] = "yes"

C1_Witness ==
  \E r \in Reqs : allowed[r] = "no" /\ Returning(r) /\ params[r].path = PrivatePath

\* C2: per origin at most one robots.txt fetch is in flight, a caller that finds a
\* fetch in flight waits for it, one fetch is made per cached policy (none while the
\* policy is fresh), and the callers answered from one fetch evaluated the same rules
C2_OneRobotsFetchPerOrigin ==
  /\ \A o \in Origins :
       LET fetching == { r \in Reqs : pc[r] = "robots_fetch" /\ params[r].origin = o }
       IN  /\ Cardinality(fetching) <= 1
           /\ (cache[o].state = "fetching") <=> (fetching # {})
           /\ robotsFetches[o] <= expiries[o] + 1
  /\ \A r \in Reqs :
       pc[r] = "robots_wait" =>
         \E q \in Reqs \ {r} : pc[q] = "robots_fetch" /\ params[q].origin = params[r].origin
  /\ \A r, q \in Reqs :
       usedGen[r] # 0 /\ usedGen[r] = usedGen[q] /\ params[r].origin = params[q].origin =>
         usedRules[r] = usedRules[q]

C2_Witness ==
  \E r, q \in Reqs :
    /\ r # q
    /\ pc[r] = "gate" /\ pc[q] = "gate"
    /\ params[r].origin = params[q].origin
    /\ usedGen[r] = 1 /\ usedGen[q] = 1
    /\ robotsFetches[params[r].origin] = 1
    /\ ticks = 0

\* C3: FetchURL never returns content together with an error, and handleFetchTool
\* returns a nil result exactly when it returns an error
C3_ContentOrError ==
  \A r \in Reqs :
    /\ Returning(r) /\ returned[r].err # NoErr => returned[r].content = <<>>
    /\ pc[r] = "done" => (result[r].isNil <=> result[r].err # NoErr)
    /\ pc[r] = "done" /\ result[r].isNil => result[r].text = <<>>

C3_Witness ==
  \E r \in Reqs : pc[r] = "done" /\ result[r].isNil /\ result[r].err = HTTPStatusError(404)

\* C4: a response whose status is not 200 makes fetchURL return the status error
\* with that code and no content; the body is not read, transformed or paginated,
\* and httpClient.Do was called once
C4_Non200IsStatusError ==
  \A r \in Reqs :
    Returning(r) /\ response[r] # NoResponse /\ response[r].status # StatusOK =>
      /\ fetched[r].err = HTTPStatusError(response[r].status)
      /\ fetched[r].content = <<>>
      /\ ~fetched[r].read /\ ~fetched[r].transformed
      /\ returned[r].err = HTTPStatusError(response[r].status)
      /\ returned[r].content = <<>> /\ ~returned[r].paged
      /\ doCalls[r] = 1

C4_Witness ==
  \E r \in Reqs : Returning(r) /\ response[r].status = 404 /\ response[r].body = HtmlPage

IndicatesHTML(ctype) == ctype # <<>> /\ ctype[1] = "text/html"

\* C6: ProcessHTML ran on a body that was read iff the content type is HTML and raw
\* is false; otherwise the content handed to FormatContent is the body as read
C6_TransformIffHTMLAndNotRaw ==
  \A r \in Reqs :
    Returning(r) /\ fetched[r].read /\ fetched[r].err = NoErr =>
      /\ fetched[r].transformed <=> (IndicatesHTML(response[r].ctype) /\ ~params[r].raw)
      /\ ~fetched[r].transformed => fetched[r].content = response[r].body
      /\ returned[r].content =
           FormatContent(fetched[r].content, params[r].page[1], params[r].page[2])

C6_Witness ==
  \E r \in Reqs :
    /\ Returning(r) /\ params[r].raw /\ IndicatesHTML(response[r].ctype)
    /\ response[r].status = StatusOK /\ response[r].body = HtmlPage
    /\ fetched[r].content = HtmlPage /\ returned[r].err = NoErr

(***************************************************************************)
(* The claims about FormatContent, which count in code points.             *)
(***************************************************************************)
\* the start offset, clamped, in code points
StartRune(content, startIndex) ==
  Min(IF startIndex # Nil THEN startIndex[1] ELSE 0, RuneCount(content))

\* the characters of the content from the start offset on
RestRunes(content, startIndex) ==
  SubSeq(Runes(content), StartRune(content, startIndex) + 1, RuneCount(content))

HasMarker(out) ==
  /\ Len(out) >= Len(TruncationMarker)
  /\ Slice(out, Len(out) - Len(TruncationMarker), Len(out)) = TruncationMarker

\* the result without the truncation marker
WithoutMarker(out) ==
  IF HasMarker(out) THEN Slice(out, 0, Len(out) - Len(TruncationMarker)) ELSE out

Returned == fmtPc = "ret"

\* C7: when maxLength is set and more than maxLength code points remain after the
\* start offset, the result is the first maxLength code points of the remainder
\* followed by the marker; otherwise it is the remainder, without marker
C7_TruncatesToMaxLengthCodePoints ==
  Returned =>
    LET rest == RestRunes(fmtArgs.content, fmtArgs.startIndex)
    IN  IF fmtArgs.maxLength # Nil /\ Len(rest) > fmtArgs.maxLength[1]
          THEN fmtOut = Encode(SubSeq(rest, 1, fmtArgs.maxLength[1])) \o TruncationMarker
          ELSE fmtOut = Encode(rest)

\* C8: Slice(content, 0, length(content)) = content, length in code points
C8_FullSliceIsIdentity ==
  Returned /\ fmtArgs.startIndex = Ptr(0)
           /\ fmtArgs.maxLength = Ptr(RuneCount(fmtArgs.content)) =>
    fmtOut = fmtArgs.content

\* C9: a startIndex at or beyond the content's length in code points gives the empty
\* string, with or without maxLength; a smaller one gives, without maxLength, the
\* content from that code point on
C9_StartIndexClamped ==
  Returned /\ fmtArgs.startIndex # Nil =>
    IF fmtArgs.startIndex[1] >= RuneCount(fmtArgs.content)
      THEN fmtOut = <<>>
      ELSE fmtArgs.maxLength = Nil =>
             fmtOut = Encode(RestRunes(fmtArgs.content, fmtArgs.startIndex))

\* C10: the result without the marker is a run of whole characters of the content
C10_NeverSplitsACharacter ==
  Returned =>
    LET rs == Runes(fmtArgs.content)
    IN  /\ ValidUTF8(WithoutMarker(fmtOut))
        /\ \E i \in 1..(Len(rs) + 1), j \in 0..Len(rs) :
             WithoutMarker(fmtOut) = Encode(SubSeq(rs, i, j))

\* C11: FormatContent is total on valid inputs: with start_index nil or >= 0
\* and max_length nil or >= 0, no call panics on an out-of-range slice, and
\* every call returns a string
C11_FormatContentTotal ==
  /\ fmtPc # "panic"
  /\ Returned => fmtOut \in Seq(0..255)

\* a call returned although start_index lay beyond the end of the content and
\* max_length was 0
C11_Witness ==
  /\ Returned
  /\ fmtArgs.startIndex # Nil
  /\ fmtArgs.startIndex[1] > Len(fmtArgs.content)
  /\ fmtArgs.maxLength = Ptr(0)
  /\ fmtOut = <<>>

\* C12: any failure inside ProcessHTML, a parse error or a Markdown conversion
\* error, is absorbed: the call returns the original HTML unchanged, also when
\* readability had extracted an article before the conversion failed, and the
\* fetch still succeeds
C12_FailureReturnsOriginalHTML ==
  \A r \in Reqs :
    (/\ Returning(r)
     /\ fetched[r].transformed
     /\ fetched[r].lib.parseErr \/ fetched[r].lib.convertErr)
    => /\ fetched[r].err = NoErr
       /\ returned[r].err = NoErr
       /\ fetched[r].content = response[r].body

\* C13: with the bypass flag set IsAllowed answers true for every URL without
\* network access: no robots.txt GET is sent, no policy is fetched or cached, and
\* no call ends in RobotsDisallowed, so a URL robots.txt would disallow is
\* fetched; without the flag a call for a URL the served robots.txt disallows
\* ends in RobotsDisallowed and sends no content GET
C13_BypassSkipsRobots ==
  \A r \in Reqs :
    /\ ignoreRobots =>
         /\ robotsGets[r] = 0
         /\ allowed[r] \in {"unknown", "yes"}
         /\ \A o \in Origins : robotsFetches[o] = 0 /\ cache[o] = NoPolicy
         /\ Returning(r) => returned[r].err # RobotsDisallowed
    /\ (~ignoreRobots /\ Returning(r) /\ ~Evaluate(usedRules[r], params[r].path)) =>
         /\ returned[r].err = RobotsDisallowed
         /\ contentGets[r] = 0

\* with the flag set, the path the model's robots.txt files disallow was
\* fetched and its content returned
C13_Witness ==
  /\ ignoreRobots
  /\ Returning(TheCall)
  /\ params[TheCall].path = PrivatePath
  /\ contentGets[TheCall] >= 1
  /\ returned[TheCall].err = NoErr

\* C14: a failed robots.txt fetch never fails the request: it yields the
\* allow-all policy, every call answered from it is allowed and does not end in
\* RobotsDisallowed, and the policy is cached with less time to live than a
\* parsed policy gets, so the origin is fetched again sooner
C14_FailedRobotsFetchAllowsAll ==
  \A o \in Origins :
    (cache[o].state = "policy" /\ cache[o].failed) =>
      /\ cache[o].rules = {}
      /\ cache[o].ttl < TTLParsed
      /\ \A r \in Reqs :
           (params[r].origin = o /\ usedGen[r] = cache[o].gen) =>
             /\ allowed[r] = "yes"
             /\ usedRules[r] = {}
             /\ Returning(r) => returned[r].err # RobotsDisallowed

\* a call answered from the policy of a failed fetch returned content, for a
\* path a parsed robots.txt of the model disallows
C14_Witness ==
  \E r \in Reqs :
    LET o == params[r].origin
    IN  /\ cache[o].state = "policy" /\ cache[o].failed
        /\ usedGen[r] = cache[o].gen
        /\ params[r].path = PrivatePath
        /\ Returning(r)
        /\ returned[r].err = NoErr

\* the lengths of the patterns of the Allow (allow = TRUE) or Disallow rules
\* that match the path
MatchLengths(rules, path, allow) ==
  { Len(rl.pattern) : rl \in { m \in rules : m.allow = allow /\ PathHasPrefix(path, m.pattern) } }

\* C15: the longest matching pattern decides: a path is disallowed exactly when
\* a Disallow rule matches it and no Allow rule matches it with a pattern at
\* least as long (an Allow of equal length wins, no match allows); under
\* "Disallow: /p" alone "/p/x" is blocked and "/u" is allowed
C15_LongestMatchDecides ==
  \A r \in Reqs :
    (~ignoreRobots /\ allowed[r] # "unknown") =>
      LET path == params[r].path
          A    == MatchLengths(usedRules[r], path, TRUE)
          D    == MatchLengths(usedRules[r], path, FALSE)
      IN  /\ allowed[r] = "no" <=> \E d \in D : \A a \in A : a < d
          /\ usedRules[r] = {DisallowPrivate} =>
                (allowed[r] = "no" <=> path = PrivatePath)

\* an Allow and a Disallow of the same length both match, under a shorter
\* Disallow: the path is allowed
C15_Witness ==
  /\ usedRules[TheCall] = {DisallowPrivate, AllowPrivate, DisallowAll}
  /\ params[TheCall].path = PrivatePath
  /\ allowed[TheCall] = "yes"
  /\ contentGets[TheCall] = 1

\* C16: cancelling the caller's context while the robots.txt fetch or the
\* content fetch is outstanding aborts it: the call ends with an error and does
\* not wait for the remote answer, so no call cancelled during its fetch
\* returns content
C16_CancelAbortsFetch ==
  \A r \in Reqs : (Returning(r) /\ cancelled[r]) => returned[r].err # NoErr

\* C17: every error FetchURL returns, robots-disallowed, network error or HTTP
\* status error, carries the URL of the request in its message
C17_ErrorsCarryURL ==
  \A r \in Reqs :
    (Returning(r) /\ returned[r].err.kind \in {"robots", "network", "status"}) =>
      returned[r].err.url

\* C18: the stages of a request run in the order robots check, retrieval,
\* transformation, pagination, each at most once: httpClient.Do is called at
\* most once and only after IsAllowed answered true, a body is read only from
\* that call and transformed only once read, and the content a successful call
\* returns is FormatContent applied to the output of ProcessHTML (to the body
\* as read when nothing is transformed), never to the HTML before it
C18_StagesInOrder ==
  \A r \in Reqs :
    /\ doCalls[r] <= 1
    /\ doCalls[r] = 1 => allowed[r] = "yes"
    /\ fetched[r].read => doCalls[r] = 1
    /\ fetched[r].transformed => fetched[r].read
    /\ (Returning(r) /\ returned[r].paged) => (fetched[r].read /\ fetched[r].err = NoErr)
    /\ (Returning(r) /\ returned[r].err = NoErr) =>
         LET staged == IF fetched[r].transformed
                         THEN ProcessHTML(response[r].body, fetched[r].lib)
                         ELSE response[r].body
         IN  /\ returned[r].paged
             /\ returned[r].content =
                  FormatContent(staged, params[r].page[1], params[r].page[2])

\* a page was transformed and then cut by start_index and max_length; cutting
\* the HTML as received would have given another result
C18_Witness ==
  \E r \in Reqs :
    /\ Returning(r)
    /\ fetched[r].transformed
    /\ fetched[r].lib = [parseErr |-> FALSE, article |-> "ok", convertErr |-> FALSE]
    /\ params[r].page = <<Ptr(1), Ptr(2)>>
    /\ returned[r].err = NoErr
    /\ returned[r].content = Slice(fetched[r].content, 1, 3)
    /\ returned[r].content #
         FormatContent(response[r].body, params[r].page[1], params[r].page[2])

\* a body size cap between the lengths of the two bodies the server sends
BodyCap == Len(TextPage)

\* C20: the retriever bounds the size of the body: the bytes of a response body
\* fetchURL holds in memory never exceed the cap
C20_BodyWithinCap ==
  \A r \in Reqs : fetched[r].held <= BodyCap

\* Start was called: it started a listener or returned an error
StartCalled == listener # "none" \/ startErr # <<>>

\* C21: Start on a server whose transport is neither "sse" nor
\* "streamable-http" returns the error "unsupported transport type: <transport>"
\* and starts no HTTP listener
C21_UnsupportedTransportFails ==
  (StartCalled /\ fs.config.Transport \notin {TransportSSE, TransportStreamableHTTP}) =>
    /\ startErr = <<"unsupported transport type: ", fs.config.Transport>>
    /\ listener = "none"

C21_Witness ==
  /\ fs.config.Transport = "stdio"
  /\ startErr = <<"unsupported transport type: ", "stdio">>
  /\ listener = "none"

\* NewFetchServer returned
Built == srvPc \in {"built", "down"}

\* C22: NewFetchServer with EnablePrometheus set, and OTel metrics and tracing
\* not set, returns a server whose telemetry and metrics are both non-nil and
\* whose traceHelper is nil (Setup having returned no error)
C22_PrometheusInitialisesMetrics ==
  (/\ Built
   /\ fs.config.EnablePrometheus
   /\ ~fs.config.EnableOTelMetrics
   /\ ~fs.config.EnableOTelTracing
   /\ setupErr = "")
  => /\ fs.telemetry # NilTelemetry
     /\ fs.metrics
     /\ ~fs.traceHelper

\* C23: NewFetchServer with the three observability switches off returns a
\* server whose telemetry, metrics and traceHelper are nil, whose fetcher and
\* MCP server are not, and whose config is the one passed in; Shutdown on it
\* calls nothing and returns nil
C23_NoObservabilityByDefault ==
  (/\ Built
   /\ ~cfg.EnableOTelMetrics
   /\ ~cfg.EnableOTelTracing
   /\ ~cfg.EnablePrometheus)
  => /\ fs.telemetry = NilTelemetry
     /\ ~fs.metrics
     /\ ~fs.traceHelper
     /\ fs.fetcher
     /\ fs.mcpServer
     /\ fs.config = cfg
     /\ otelGlobal = {}
     /\ srvPc = "down" => (shutdownRet = "nil" /\ shutdownLog = <<>>)

C23_Witness ==
  /\ srvPc = "down"
  /\ ~cfg.EnableOTelMetrics /\ ~cfg.EnableOTelTracing /\ ~cfg.EnablePrometheus
  /\ fs.fetcher
  /\ fs.telemetry = NilTelemetry
  /\ shutdownRet = "nil"

\* C24: Telemetry.Shutdown calls every registered shutdown function exactly
\* once, in the order of registration, goes on with the remaining ones when
\* one returns an error, and returns nil
C24_ShutdownCallsAllInOrder ==
  (srvPc = "down" /\ fs.telemetry # NilTelemetry) =>
    /\ Len(shutdownLog) = Len(fs.telemetry[1].shutdownFuncs)
    /\ \A i \in 1..Len(shutdownLog) : shutdownLog[i].fn = fs.telemetry[1].shutdownFuncs[i]
    /\ shutdownRet = "nil"

\* the first of two registered functions failed and the second was still called
C24_Witness ==
  /\ srvPc = "down"
  /\ fs.telemetry # NilTelemetry
  /\ fs.telemetry[1].shutdownFuncs = <<"tracer", "meter">>
  /\ shutdownLog = <<[fn |-> "tracer", failed |-> TRUE], [fn |-> "meter", failed |-> FALSE]>>
  /\ shutdownRet = "nil"

\* C25: ParseFlags applies its defaults to what the flags and the environment
\* gave: an empty UserAgent becomes DefaultUA, an empty OTelServiceName becomes
\* ServerName, an empty OTelServiceVersion becomes ServerVersion, a MetricsPort
\* of 0 becomes the final Port, which is the port flag unless MCP_PORT holds an
\* integer; every other value is the parsed one
C25_DefaultsAfterParsing ==
  srvPc = "parsed" =>
    LET p == parseConfig(osArgs)
    IN  /\ p.UserAgent = "" => cfg.UserAgent = DefaultUA
        /\ p.UserAgent # "" => cfg.UserAgent = p.UserAgent
        /\ p.OTelServiceName = "" => cfg.OTelServiceName = ServerName
        /\ p.OTelServiceName # "" => cfg.OTelServiceName = p.OTelServiceName
        /\ p.OTelServiceVersion = "" => cfg.OTelServiceVersion = ServerVersion
        /\ p.OTelServiceVersion # "" => cfg.OTelServiceVersion = p.OTelServiceVersion
        /\ osArgs.env.MCP_PORT = <<"9000">> => cfg.Port = 9000
        /\ osArgs.env.MCP_PORT \in {Unset, <<"abc">>} => cfg.Port = osArgs.flags.port
        /\ p.MetricsPort = 0 => cfg.MetricsPort = cfg.Port
        /\ p.MetricsPort # 0 => cfg.MetricsPort = p.MetricsPort
        /\ cfg.Transport = p.transport
        /\ cfg.EnablePrometheus = p.EnablePrometheus
        /\ cfg.EnableOTelTracing = p.EnableOTelTracing

\* no metrics port was given and MCP_PORT overrode the port flag: the metrics
\* port is the overriding port
C25_Witness ==
  /\ srvPc = "parsed"
  /\ osArgs.flags.port = DefaultPort
  /\ osArgs.env.MCP_PORT = <<"9000">>
  /\ osArgs.flags.metricsPort = 0
  /\ osArgs.env.METRICS_PORT = Unset
  /\ osArgs.flags.userAgent = ""
  /\ cfg.Port = 9000
  /\ cfg.MetricsPort = 9000
  /\ cfg.UserAgent = DefaultUA

\* C26: ProcessHTML converts the readability article only when the extraction
\* succeeded with non-empty content; when it failed or gave empty content the
\* whole original document is converted, and the request succeeds either way
C26_ArticleOnlyWhenExtracted ==
  \A r \in Reqs :
    (/\ Returning(r)
     /\ fetched[r].transformed
     /\ ~fetched[r].lib.parseErr
     /\ ~fetched[r].lib.convertErr)
    => LET body      == response[r].body
           extracted == fetched[r].lib.article = "ok" /\ ArticleContent(body) # <<>>
       IN  /\ extracted => fetched[r].content = ConvertString(ArticleContent(body))
           /\ ~extracted => fetched[r].content = ConvertString(body)
           /\ fetched[r].err = NoErr
           /\ returned[r].err = NoErr

\* the extraction failed on the HTML page: the text of the whole page, its
\* navigation included, came back
C26_Witness ==
  \E r \in Reqs :
    /\ Returning(r)
    /\ fetched[r].transformed
    /\ fetched[r].lib = [parseErr |-> FALSE, article |-> "err", convertErr |-> FALSE]
    /\ response[r].body = HtmlPage
    /\ fetched[r].content = <<97, 195, 169, 97>>
    /\ returned[r].err = NoErr

\* the calls between handleFetchTool's entry and its return
InFlight == { r \in Reqs : pc[r] \notin {"idle", "done"} }

\* the calls that returned, and those of them that returned FetchURL's error
Completed == { r \in Reqs : pc[r] = "done" }

Failed == { r \in Completed : result[r].err # NoErr }

\* C27: with metrics on, every call adds 1 to the concurrent-requests gauge
\* before it fetches and takes 1 off exactly once when it returns, whatever the
\* path: under any interleaving the gauge is the number of calls in flight, it
\* is never negative, and it is 0 when no call is in flight
C27_GaugeCountsCallsInFlight ==
  metrics =>
    /\ concurrentRequests = Cardinality(InFlight)
    /\ concurrentRequests >= 0
    /\ InFlight = {} => concurrentRequests = 0

\* one call returned an error while another was still in flight: the gauge is 1
C27_Witness ==
  /\ metrics
  /\ \E r \in Failed : \E q \in InFlight : q # r
  /\ Cardinality(InFlight) = 1
  /\ concurrentRequests = 1

\* C28: with metrics on, every completed call recorded exactly one fetch
\* operation, as an error if and only if FetchURL returned an error; the
\* fetch-error counter and the MCP error counter went up for those calls only,
\* a response size was recorded for the others only; so FetchErrors <=
\* FetchCount and FetchCount is the number of completed calls
C28_OneFetchOperationPerCall ==
  metrics =>
    /\ fetchCount = Cardinality(Completed)
    /\ fetchErrors = Cardinality(Failed)
    /\ mcpErrorCount = Cardinality(Failed)
    /\ responseSizes = Cardinality(Completed \ Failed)
    /\ fetchErrors <= fetchCount

\* two calls completed, one with an error and one with content
C28_Witness ==
  /\ metrics
  /\ Cardinality(Completed) = 2
  /\ Cardinality(Failed) = 1
  /\ fetchCount = 2
  /\ fetchErrors = 1
  /\ mcpErrorCount = 1
  /\ responseSizes = 1

C30_SetupAllOrNothing ==
  (Built /\ setupErr # "") =>
    /\ fs.telemetry = NilTelemetry
    /\ otelGlobal = {}
    /\ running = {}

=============================================================================
